---- MODULE Spec2Model ----
(***************************************************************************)
(* Model of src/app.py: a Streamlit page that is re-executed top to bottom *)
(* on every widget interaction.  One run loads the credential, scores and  *)
(* ranks the market table (tab 1), assembles the GTM prompt and optionally *)
(* calls the text-generation service (tab 2), and derives the telemetry    *)
(* feedback notes (tab 3).                                                 *)
(*                                                                         *)
(* The page computes with Python/NumPy binary64 numbers.  They are         *)
(* modelled bit-exactly (round to nearest, ties to even) because rounding  *)
(* decides ties between scores and the side of a threshold a trend is on.  *)
(***************************************************************************)
EXTENDS Integers, Sequences, FiniteSets, TLC

\* A table that is computed once: the comparison makes the evaluator
\* enumerate the function, after which applications are look-ups.
Memo(f) ==
    LET g == f IN IF g = g THEN g ELSE g

(***************************************************************************)
(* Naturals of arbitrary size: bit sequences, least significant bit first, *)
(* with no zero bit at the high end (zero is the empty sequence).          *)
(***************************************************************************)
RECURSIVE NatToBits(_)
NatToBits(n) ==
    IF n = 0 THEN <<>> ELSE <<n % 2>> \o NatToBits(n \div 2)

RECURSIVE BitsToNat(_)
BitsToNat(b) ==
    IF b = <<>> THEN 0 ELSE Head(b) + 2 * BitsToNat(Tail(b))

\* the highest index holding a 1 (0 when there is none)
BTop(b) ==
    IF \A i \in 1..Len(b) : b[i] = 0 THEN 0
    ELSE CHOOSE i \in 1..Len(b) : b[i] = 1 /\ \A j \in (i + 1)..Len(b) : b[j] = 0

BTrim(b) ==
    SubSeq(b, 1, BTop(b))

BitAt(b, i) ==
    IF i >= 1 /\ i <= Len(b) THEN b[i] ELSE 0

Zeros(k) ==
    [i \in 1..k |-> 0]

\* The loops over bit positions are unrolled as balanced recursions over an
\* index range, so that their depth is logarithmic in the length.  The test
\* on the left half's result is always true: it makes the evaluator compute
\* that result before it descends into the right half.
AddStep(a, b, st, i) ==
    LET s == BitAt(a, i) + BitAt(b, i) + st.c
    IN  [bits |-> Append(st.bits, s % 2), c |-> s \div 2]

RECURSIVE AddRange(_, _, _, _, _)
AddRange(a, b, st, lo, hi) ==
    IF lo > hi THEN st
    ELSE IF lo = hi THEN AddStep(a, b, st, lo)
    ELSE LET mid  == (lo + hi) \div 2
             left == AddRange(a, b, st, lo, mid)
         IN  IF left.c >= 0 THEN AddRange(a, b, left, mid + 1, hi) ELSE left

BAdd(a, b) ==
    LET n  == IF Len(a) > Len(b) THEN Len(a) ELSE Len(b)
        st == AddRange(a, b, [bits |-> <<>>, c |-> 0], 1, n)
    IN  IF st.c = 1 THEN Append(st.bits, 1) ELSE st.bits

SubStep(a, b, st, i) ==
    LET d == BitAt(a, i) - BitAt(b, i) - st.c
    IN  [bits |-> Append(st.bits, d % 2), c |-> IF d < 0 THEN 1 ELSE 0]

RECURSIVE SubRange(_, _, _, _, _)
SubRange(a, b, st, lo, hi) ==
    IF lo > hi THEN st
    ELSE IF lo = hi THEN SubStep(a, b, st, lo)
    ELSE LET mid  == (lo + hi) \div 2
             left == SubRange(a, b, st, lo, mid)
         IN  IF left.c >= 0 THEN SubRange(a, b, left, mid + 1, hi) ELSE left

\* a - b for a >= b
BSub(a, b) ==
    BTrim(SubRange(a, b, [bits |-> <<>>, c |-> 0], 1, Len(a)).bits)

\* -1, 0 or 1 as a < b, a = b or a > b (a, b without high zero bits)
BCmp(a, b) ==
    IF Len(a) # Len(b) THEN (IF Len(a) > Len(b) THEN 1 ELSE -1)
    ELSE IF a = b THEN 0
    ELSE LET i == CHOOSE k \in 1..Len(a) :
                      a[k] # b[k] /\ \A j \in (k + 1)..Len(a) : a[j] = b[j]
         IN  IF a[i] > b[i] THEN 1 ELSE -1

BShl(a, k) ==
    IF a = <<>> THEN <<>> ELSE Zeros(k) \o a

BShr(a, k) ==
    IF k >= Len(a) THEN <<>> ELSE SubSeq(a, k + 1, Len(a))

\* Multiplication on limbs of 14 bits (least significant first): a column
\* sums at most 8 products below 2^28.  Used for factors of up to 112 bits.
ToLimbs(a) ==
    [k \in 1..((Len(a) + 13) \div 14) |->
        BitsToNat(SubSeq(a, 14 * (k - 1) + 1,
                         IF 14 * k < Len(a) THEN 14 * k ELSE Len(a)))]

RECURSIVE ColSum(_, _, _, _)
ColSum(x, y, k, i) ==
    IF i > Len(x) THEN 0
    ELSE (IF k + 1 - i >= 1 /\ k + 1 - i <= Len(y) THEN x[i] * y[k + 1 - i] ELSE 0)
         + ColSum(x, y, k, i + 1)

RECURSIVE MulCols(_, _, _, _)
MulCols(x, y, k, c) ==
    IF k > Len(x) + Len(y) THEN <<>>
    ELSE LET t == ColSum(x, y, k, 1) + c
         IN  <<t % 16384>> \o MulCols(x, y, k + 1, t \div 16384)

RECURSIVE FromLimbs(_, _)
FromLimbs(l, k) ==
    IF k > Len(l) THEN <<>>
    ELSE LET d == NatToBits(l[k])
         IN  d \o Zeros(14 - Len(d)) \o FromLimbs(l, k + 1)

BMul(a, b) ==
    BTrim(FromLimbs(MulCols(ToLimbs(a), ToLimbs(b), 1, 0), 1))

\* one step of long division: bit i of a is brought down to the remainder
DivStep(a, b, st, i) ==
    LET r2 == BTrim(<<a[i]>> \o st.r)
        ge == BCmp(r2, b) >= 0
    IN  [q |-> <<IF ge THEN 1 ELSE 0>> \o st.q,
         r |-> IF ge THEN BSub(r2, b) ELSE r2]

\* bits hi down to lo of a
RECURSIVE DivRange(_, _, _, _, _)
DivRange(a, b, st, hi, lo) ==
    IF hi < lo THEN st
    ELSE IF hi = lo THEN DivStep(a, b, st, hi)
    ELSE LET mid  == (hi + lo) \div 2
             left == DivRange(a, b, st, hi, mid + 1)
         IN  IF Len(left.r) >= 0 THEN DivRange(a, b, left, mid, lo) ELSE left

\* the same long division by a divisor n < 2^30, the remainder a machine integer
SmallDivStep(a, n, st, i) ==
    LET r2 == 2 * st.r + a[i]
    IN  IF r2 >= n THEN [q |-> <<1>> \o st.q, r |-> r2 - n]
        ELSE [q |-> <<0>> \o st.q, r |-> r2]

RECURSIVE SmallDivRange(_, _, _, _, _)
SmallDivRange(a, n, st, hi, lo) ==
    IF hi < lo THEN st
    ELSE IF hi = lo THEN SmallDivStep(a, n, st, hi)
    ELSE LET mid  == (hi + lo) \div 2
             left == SmallDivRange(a, n, st, hi, mid + 1)
         IN  IF left.r >= 0 THEN SmallDivRange(a, n, left, mid, lo) ELSE left

\* the number of zero bits below the lowest 1 of b # <<>>
BLowZeros(b) ==
    (CHOOSE i \in 1..Len(b) : b[i] = 1 /\ \A j \in 1..(i - 1) : b[j] = 0) - 1

\* quotient and remainder of a by b # 0.  A divisor that is a number below
\* 2^30 times a power of two is divided by in machine integers.
BDivMod(a, b) ==
    LET z  == BLowZeros(b)
        b1 == BShr(b, z)
    IN  IF Len(b1) <= 30
        THEN LET a1 == BShr(a, z)
                 d  == SmallDivRange(a1, BitsToNat(b1), [q |-> <<>>, r |-> 0], Len(a1), 1)
             IN  [q |-> BTrim(d.q),
                  r |-> BTrim(SubSeq(a, 1, IF z < Len(a) THEN z ELSE Len(a))
                              \o Zeros(IF z > Len(a) THEN z - Len(a) ELSE 0)
                              \o NatToBits(d.r))]
        ELSE LET d == DivRange(a, b, [q |-> <<>>, r |-> <<>>], Len(a), 1)
             IN  [q |-> BTrim(d.q), r |-> d.r]

BAny(b, k) ==
    \E i \in 1..k : BitAt(b, i) = 1

(***************************************************************************)
(* binary64.  A number is [s, e, hi, lo]: sign s in {-1, 0, 1} and, when   *)
(* s # 0, the value s * (hi * 2^27 + lo) * 2^e with a 53-bit significand   *)
(* (2^25 <= hi < 2^26, 0 <= lo < 2^27).  The sign of a zero is not kept:   *)
(* no operation of the page observes it.  Exponent range (overflow,        *)
(* subnormals) is not modelled: every value of the page lies in            *)
(* 2^-60 .. 2^13.                                                          *)
(***************************************************************************)
FZero ==
    [s |-> 0, e |-> 0, hi |-> 0, lo |-> 0]

FMant(x) ==
    LET l == NatToBits(x.lo)
    IN  l \o Zeros(27 - Len(l)) \o NatToBits(x.hi)

FPack(s, m, e) ==
    [s |-> s, e |-> e,
     hi |-> BitsToNat(SubSeq(m, 28, 53)),
     lo |-> BitsToNat(SubSeq(m, 1, 27))]

\* the binary64 nearest to s * bits * 2^e (+ a positive amount below one
\* unit of bits when sticky), ties to even
FRound(s, bits, e, sticky) ==
    LET n == Len(bits)
    IN  IF n = 0 THEN FZero
        ELSE IF n <= 53 THEN FPack(s, BShl(bits, 53 - n), e - (53 - n))
        ELSE LET d     == n - 53
                 kept  == BShr(bits, d)
                 guard == bits[d]
                 rest  == sticky \/ BAny(bits, d - 1)
                 up    == guard = 1 /\ (rest \/ kept[1] = 1)
                 m     == IF up THEN BAdd(kept, <<1>>) ELSE kept
             IN  IF Len(m) = 54 THEN FPack(s, BShr(m, 1), e + d + 1)
                 ELSE FPack(s, m, e + d)

FromInt(n) ==
    IF n = 0 THEN FZero
    ELSE FRound(IF n < 0 THEN -1 ELSE 1, NatToBits(IF n < 0 THEN -n ELSE n), 0, FALSE)

FNeg(x) ==
    [x EXCEPT !.s = -x.s]

FMul(x, y) ==
    IF x.s = 0 \/ y.s = 0 THEN FZero
    ELSE FRound(x.s * y.s, BMul(FMant(x), FMant(y)), x.e + y.e, FALSE)

FDiv(x, y) ==
    IF x.s = 0 THEN FZero
    ELSE LET d == BDivMod(BShl(FMant(x), 56), FMant(y))
         IN  FRound(x.s * y.s, d.q, x.e - y.e - 56, d.r # <<>>)

FAdd(x, y) ==
    IF x.s = 0 THEN y
    ELSE IF y.s = 0 THEN x
    ELSE LET em == IF x.e < y.e THEN x.e ELSE y.e
             a  == BShl(FMant(x), x.e - em)
             b  == BShl(FMant(y), y.e - em)
             c  == BCmp(a, b)
         IN  IF x.s = y.s THEN FRound(x.s, BAdd(a, b), em, FALSE)
             ELSE IF c = 0 THEN FZero
             ELSE IF c > 0 THEN FRound(x.s, BSub(a, b), em, FALSE)
             ELSE FRound(y.s, BSub(b, a), em, FALSE)

FSub(x, y) ==
    FAdd(x, FNeg(y))

\* magnitudes of two nonzero numbers compared: -1, 0, 1
FMagCmp(x, y) ==
    IF x.e # y.e THEN (IF x.e > y.e THEN 1 ELSE -1)
    ELSE IF x.hi # y.hi THEN (IF x.hi > y.hi THEN 1 ELSE -1)
    ELSE IF x.lo # y.lo THEN (IF x.lo > y.lo THEN 1 ELSE -1)
    ELSE 0

FCmp(x, y) ==
    IF x.s # y.s THEN (IF x.s > y.s THEN 1 ELSE -1)
    ELSE IF x.s = 0 THEN 0
    ELSE x.s * FMagCmp(x, y)

FLt(x, y) == FCmp(x, y) < 0
FGt(x, y) == FCmp(x, y) > 0

\* a decimal literal num/den of the source text as the binary64 it denotes
Dec(num, den) ==
    FDiv(FromInt(num), FromInt(den))

(***************************************************************************)
(* The market table (mock_data, df).  Decimal literals are kept as         *)
(* <<numerator, denominator>> and read as binary64 by Lit.                 *)
(***************************************************************************)
mock_data ==
    [Country           |-> <<"Norway", "UK", "Australia", "Germany",
                             "Mexico", "India", "Brazil", "Thailand">>,
     EV_Adoption       |-> <<80, 20, 8, 25, 3, 5, 4, 7>>,
     Tariffs           |-> <<0, 10, 5, 10, 20, 15, 12, 10>>,
     Charging_Stations |-> <<5000, 700, 300, 1500, 200, 400, 350, 220>>,
     China_Sentiment   |-> << <<8, 10>>, <<7, 10>>, <<6, 10>>, <<4, 10>>,
                              <<5, 10>>, <<3, 10>>, <<6, 10>>, <<7, 10>> >>,
     Market_Size       |-> <<5, 8, 6, 9, 6, 10, 7, 6>>]

\* a numeric literal: an integer n is <<n, 1>>, a decimal such as 0.35 is <<35, 100>>
Lit(l) ==
    IF l[2] = 1 THEN FromInt(l[1]) ELSE Dec(l[1], l[2])

NumRows ==
    Len(mock_data.Country)

Rows ==
    1..NumRows

\* pd.DataFrame(mock_data): one row per country; the integer columns are
\* int64 and China_Sentiment is float64.  No Score column yet.
DataFrame(data) ==
    [i \in 1..Len(data.Country) |->
        [Country           |-> data.Country[i],
         EV_Adoption       |-> data.EV_Adoption[i],
         Tariffs           |-> data.Tariffs[i],
         Charging_Stations |-> data.Charging_Stations[i],
         China_Sentiment   |-> Lit(data.China_Sentiment[i]),
         Market_Size       |-> data.Market_Size[i]]]

(***************************************************************************)
(* Tab 1: weights, Score, ranking.                                         *)
(***************************************************************************)
PriorityOptions ==
    {"EV Adoption", "Low Import Tariffs", "Strong Infrastructure",
     "Positive China Sentiment", "Market Size"}

\* the literals 0.4 and 0.2 of the weights dictionary
Lit04 == Dec(4, 10)
Lit02 == Dec(2, 10)

\* mutant: the tariff coefficient with the wrong sign
WeightsTariffSign(P) ==
    [EV_Adoption       |-> IF "EV Adoption" \in P THEN Lit04 ELSE FZero,
     Tariffs           |-> IF "Low Import Tariffs" \in P THEN Lit02 ELSE FZero,
     Charging_Stations |-> IF "Strong Infrastructure" \in P THEN Lit02 ELSE FZero,
     China_Sentiment   |-> IF "Positive China Sentiment" \in P THEN Lit02 ELSE FZero,
     Market_Size       |-> IF "Market Size" \in P THEN Lit02 ELSE FZero]

\* the weights dictionary of the priority selection (a literal 0 is the
\* number zero; the dictionary's first key is "EV Adoption")
Weights(P) ==
    [EV_Adoption       |-> IF "EV Adoption" \in P THEN Lit04 ELSE FZero,
     Tariffs           |-> IF "Low Import Tariffs" \in P THEN FNeg(Lit02) ELSE FZero,
     Charging_Stations |-> IF "Strong Infrastructure" \in P THEN Lit02 ELSE FZero,
     China_Sentiment   |-> IF "Positive China Sentiment" \in P THEN Lit02 ELSE FZero,
     Market_Size       |-> IF "Market Size" \in P THEN Lit02 ELSE FZero]

\* mutant: the stations column scaled by 10 instead of 100
ScoreRowWrongScale(r, w) ==
    FAdd(FAdd(FAdd(FAdd(
        FMul(FromInt(r.EV_Adoption), w.EV_Adoption),
        FMul(FromInt(r.Tariffs), w.Tariffs)),
        FMul(FDiv(FromInt(r.Charging_Stations), FromInt(10)), w.Charging_Stations)),
        FMul(FMul(r.China_Sentiment, FromInt(10)), w.China_Sentiment)),
        FMul(FromInt(r.Market_Size), w.Market_Size))

\* the Score expression for one row, evaluated left to right
ScoreRow(r, w) ==
    FAdd(FAdd(FAdd(FAdd(
        FMul(FromInt(r.EV_Adoption), w.EV_Adoption),
        FMul(FromInt(r.Tariffs), w.Tariffs)),
        FMul(FDiv(FromInt(r.Charging_Stations), FromInt(100)), w.Charging_Stations)),
        FMul(FMul(r.China_Sentiment, FromInt(10)), w.China_Sentiment)),
        FMul(FromInt(r.Market_Size), w.Market_Size))

\* df["Score"] = ...: the table with the Score column set
WithScore(d, w) ==
    [i \in 1..Len(d) |-> [Score |-> ScoreRow(d[i], w)] @@ d[i]]

\* df = pd.DataFrame(mock_data) and its scored forms, computed once
FreshFrame ==
    Memo(DataFrame(mock_data))

ScoredFrames ==
    Memo([P \in SUBSET PriorityOptions |-> WithScore(FreshFrame, Weights(P))])

\* lines 57-63 applied to the table d under selection P
Scored(d, P) ==
    IF d = FreshFrame /\ P \in SUBSET PriorityOptions
    THEN ScoredFrames[P]
    ELSE WithScore(d, Weights(P))

(***************************************************************************)
(* df.sort_values("Score", ascending=False) uses the default sort kind     *)
(* (quicksort), which is not stable: the place of rows with equal Score is *)
(* decided by the sort of the installed NumPy/pandas build, the same way   *)
(* on every call.  A build is modelled by the order it leaves tied rows    *)
(* in: build 0 keeps them in table order (an insertion sort on the         *)
(* reversed keys, reversed back), build 1 leaves them in reverse table     *)
(* order (an ascending sort read backwards), later builds rotate these.    *)
(***************************************************************************)
MaxBuild == 1

VARIABLES
    credential,        \* st.secrets["OPENAI_API_KEY"]: "absent", "invalid", "valid"
    build,             \* the installed sort (see TieKey)
    priority,          \* multiselect
    top_n,             \* slider
    selected_country,  \* selectbox
    product,           \* the three text inputs
    clicked,           \* st.button: true in the run its click started
    selected_kpi,      \* selectbox
    pc,                \* where the run is: "setup", "tab1", "tab2", "tab3",
                       \* or ended: "done", "stopped" (st.stop), "failed" (exception)
    df, weights, ranked, shown, country_data, prompt, response, notes,
    page,              \* the elements this run has rendered
    mark               \* history: the tab 1 output of one earlier run

\* mutant: a sort whose tie order changes from run to run (with the slider)
TieKeyBySlider(b, i) ==
    (i - 1 + top_n) % NumRows

TieKey(b, i) ==
    IF b % 2 = 0
    THEN (i - 1 + b \div 2) % NumRows
    ELSE (NumRows - i + b \div 2) % NumRows

\* mutant: ascending instead of descending
BeforeAscending(d, b, x, y) ==
    \/ FLt(d[x].Score, d[y].Score)
    \/ /\ FCmp(d[x].Score, d[y].Score) = 0
       /\ TieKey(b, x) < TieKey(b, y)

\* row x is placed before row y
Before(d, b, x, y) ==
    \/ FGt(d[x].Score, d[y].Score)
    \/ /\ FCmp(d[x].Score, d[y].Score) = 0
       /\ TieKey(b, x) < TieKey(b, y)

\* mutant: the table is not sorted at all
RankUnsorted(d, b) ==
    [k \in 1..Len(d) |-> k]

\* the index of the sorted frame: the row labels in sorted order
Rank(d, b) ==
    [k \in 1..Len(d) |->
        CHOOSE x \in 1..Len(d) :
            Cardinality({y \in 1..Len(d) : Before(d, b, y, x)}) = k - 1]

\* mutant: one row short
HeadShort(r, n) ==
    SubSeq(r, 1, n - 1)

\* DataFrame.head(n)
Head_n(r, n) ==
    SubSeq(r, 1, IF n < Len(r) THEN n ELSE Len(r))

\* the radar chart is drawn for three or more selected columns
priority_map ==
    [k \in PriorityOptions |->
        CASE k = "EV Adoption"              -> "EV_Adoption"
          [] k = "Low Import Tariffs"       -> "Tariffs"
          [] k = "Strong Infrastructure"    -> "Charging_Stations"
          [] k = "Positive China Sentiment" -> "China_Sentiment"
          [] k = "Market Size"              -> "Market_Size"]

selected_cols(P) ==
    {priority_map[k] : k \in P \cap PriorityOptions}

(***************************************************************************)
(* Tab 2: the record of the selected country and the prompt.               *)
(***************************************************************************)
\* df[df["Country"] == selected_country].iloc[0]: the first matching row, with
\* every column the table has at that point
CountryData(d, c) ==
    d[CHOOSE i \in 1..Len(d) :
          d[i].Country = c /\ \A j \in 1..(i - 1) : d[j].Country # c]

\* the values the f-string substitutes into the fixed template
Prompt(cd, prod) ==
    [Country           |-> cd.Country,
     EV_Adoption       |-> cd.EV_Adoption,
     Tariffs           |-> cd.Tariffs,
     Charging_Stations |-> cd.Charging_Stations,
     China_Sentiment   |-> cd.China_Sentiment,
     Market_Size       |-> cd.Market_Size,
     product_type      |-> prod.product_type,
     price_point       |-> prod.price_point,
     target_demo       |-> prod.target_demo]

DefaultProduct ==
    [product_type |-> "Compact urban electric car",
     price_point  |-> "~$20,000 USD",
     target_demo  |-> "Urban professionals, 25-40, eco-conscious, value-focused"]

\* the texts a user types are unbounded; the model offers the defaults and
\* MaxAltProducts edited profiles
MaxAltProducts == 1

AltTexts ==
    <<"Electric SUV", "~$35,000 USD", "Families, 30-50", "Electric van">>

AltProduct(k) ==
    LET t == AltTexts[((k - 1) % Len(AltTexts)) + 1]
    IN  CASE k % 3 = 1 -> [DefaultProduct EXCEPT !.product_type = t]
          [] k % 3 = 2 -> [DefaultProduct EXCEPT !.price_point = t]
          [] OTHER     -> [DefaultProduct EXCEPT !.target_demo = t]

ProductChoices ==
    {DefaultProduct} \cup {AltProduct(k) : k \in 1..MaxAltProducts}

\* client.chat.completions.create: with a valid key the call returns or
\* raises (network, quota, malformed response); an invalid key is rejected
\* by the service, so the call raises
ApiOutcomes(cred) ==
    IF cred = "valid" THEN {"ok", "error"} ELSE {"error"}

(***************************************************************************)
(* Tab 3: telemetry and the feedback rule.                                 *)
(***************************************************************************)
Regions ==
    <<"Norway", "UK", "Germany">>

telemetry ==
    [Norway |->
        [CTR             |-> << <<12, 10>>, <<15, 10>>, <<18, 10>>, <<22, 10>> >>,
         CPI             |-> << <<20, 1>>, <<18, 1>>, <<15, 1>>, <<12, 1>> >>,
         Retention       |-> << <<30, 1>>, <<35, 1>>, <<40, 1>>, <<42, 1>> >>,
         Media_Sentiment |-> << <<2, 10>>, <<25, 100>>, <<3, 10>>, <<35, 100>> >>,
         Engagement      |-> << <<100, 1>>, <<120, 1>>, <<140, 1>>, <<160, 1>> >>],
     UK |->
        [CTR             |-> << <<10, 10>>, <<12, 10>>, <<13, 10>>, <<14, 10>> >>,
         CPI             |-> << <<25, 1>>, <<24, 1>>, <<23, 1>>, <<22, 1>> >>,
         Retention       |-> << <<25, 1>>, <<28, 1>>, <<30, 1>>, <<32, 1>> >>,
         Media_Sentiment |-> << <<1, 10>>, <<15, 100>>, <<18, 100>>, <<2, 10>> >>,
         Engagement      |-> << <<90, 1>>, <<95, 1>>, <<100, 1>>, <<105, 1>> >>],
     Germany |->
        [CTR             |-> << <<8, 10>>, <<9, 10>>, <<10, 10>>, <<11, 10>> >>,
         CPI             |-> << <<30, 1>>, <<29, 1>>, <<28, 1>>, <<27, 1>> >>,
         Retention       |-> << <<20, 1>>, <<22, 1>>, <<25, 1>>, <<26, 1>> >>,
         Media_Sentiment |-> << <<15, 100>>, <<17, 100>>, <<18, 100>>, <<2, 10>> >>,
         Engagement      |-> << <<80, 1>>, <<85, 1>>, <<87, 1>>, <<90, 1>> >>]]

kpi_options ==
    <<"CTR (Click Through Rate)", "CPI (Cost per Install)",
      "Retention", "Media Sentiment", "Engagement">>

kpi_map ==
    [k \in {kpi_options[i] : i \in 1..Len(kpi_options)} |->
        CASE k = "CTR (Click Through Rate)" -> "CTR"
          [] k = "CPI (Cost per Install)"   -> "CPI"
          [] k = "Retention"                -> "Retention"
          [] k = "Media Sentiment"          -> "Media_Sentiment"
          [] k = "Engagement"               -> "Engagement"]

\* the thresholds 0.3, 0.1, -2 and 1 of the feedback rule
Lit03 == Dec(3, 10)
Lit01 == Dec(1, 10)
LitMinus2 == FromInt(-2)
Lit1 == FromInt(1)

\* stats[metric][-1] - stats[metric][-2]
Trend(series) ==
    FSub(Lit(series[Len(series)]), Lit(series[Len(series) - 1]))

HigherIsBetter ==
    {"CTR", "Retention", "Media_Sentiment", "Engagement"}

\* mutant: CPI judged like the higher-is-better metrics
NoteNoPolarity(metric, trend) ==
    IF FGt(trend, Lit03) THEN "momentum"
    ELSE IF FLt(trend, Lit01) THEN "underwhelming"
    ELSE "stable"

\* the if / elif / else of the feedback loop
Note(metric, trend) ==
    IF \/ metric \in HigherIsBetter /\ FGt(trend, Lit03)
       \/ metric = "CPI" /\ FLt(trend, LitMinus2)
    THEN "momentum"
    ELSE IF \/ metric \in HigherIsBetter /\ FLt(trend, Lit01)
            \/ metric = "CPI" /\ FGt(trend, Lit1)
    THEN "underwhelming"
    ELSE "stable"

\* the notes of one pass of the loop over the regions
Feedback(metric) ==
    [r \in {Regions[i] : i \in 1..Len(Regions)} |->
        Note(metric, Trend(telemetry[r][metric]))]

FeedbackTable ==
    Memo([m \in {kpi_map[k] : k \in DOMAIN kpi_map} |-> Feedback(m)])

(***************************************************************************)
(* The page.  A session keeps the widget values; every interaction starts  *)
(* a new run of the script, whose variables start unset.                   *)
(***************************************************************************)
widgets == <<priority, top_n, selected_country, product, clicked, selected_kpi>>
script  == <<df, weights, ranked, shown, country_data, prompt, response, notes>>
vars    == <<credential, build, widgets, pc, script, page, mark>>

Credentials == {"absent", "invalid", "valid"}

Unset == <<>>

Start(creds, builds) ==
    /\ credential \in creds
    /\ build \in builds
    /\ priority = {}
    /\ top_n = 5
    /\ selected_country = mock_data.Country[1]
    /\ product = DefaultProduct
    /\ clicked = FALSE
    /\ selected_kpi = kpi_options[1]
    /\ pc = "setup"
    /\ df = Unset /\ weights = Unset /\ ranked = Unset /\ shown = Unset
    /\ country_data = Unset /\ prompt = Unset /\ response = "none" /\ notes = Unset
    /\ page = {}
    /\ mark = Unset

Init ==
    Start(Credentials, {0})

\* a widget change re-executes the script from the top
Rerun ==
    /\ pc' = "setup"
    /\ df' = Unset /\ weights' = Unset /\ ranked' = Unset /\ shown' = Unset
    /\ country_data' = Unset /\ prompt' = Unset /\ response' = "none" /\ notes' = Unset
    /\ page' = {}
    /\ UNCHANGED <<credential, build, mark>>

Tab1Rendered == pc \in {"tab2", "tab3", "done", "failed"}
Tab2Rendered == pc \in {"tab3", "done", "failed"}
Tab3Rendered == pc = "done"

SelectPriorities(choices) ==
    /\ Tab1Rendered
    /\ \E P \in choices : P # priority /\ priority' = P
    /\ clicked' = FALSE
    /\ UNCHANGED <<top_n, selected_country, product, selected_kpi>>
    /\ Rerun

MoveSlider ==
    /\ Tab1Rendered
    /\ \E n \in 3..Len(ranked) : n # top_n /\ top_n' = n
    /\ clicked' = FALSE
    /\ UNCHANGED <<priority, selected_country, product, selected_kpi>>
    /\ Rerun

SelectCountry ==
    /\ Tab2Rendered
    /\ \E i \in 1..Len(df) : df[i].Country # selected_country /\ selected_country' = df[i].Country
    /\ clicked' = FALSE
    /\ UNCHANGED <<priority, top_n, product, selected_kpi>>
    /\ Rerun

EditProduct ==
    /\ Tab2Rendered
    /\ \E p \in ProductChoices : p # product /\ product' = p
    /\ clicked' = FALSE
    /\ UNCHANGED <<priority, top_n, selected_country, selected_kpi>>
    /\ Rerun

ClickGenerate ==
    /\ Tab2Rendered
    /\ clicked' = TRUE
    /\ UNCHANGED <<priority, top_n, selected_country, product, selected_kpi>>
    /\ Rerun

SelectKpi ==
    /\ Tab3Rendered
    /\ \E i \in 1..Len(kpi_options) : kpi_options[i] # selected_kpi /\ selected_kpi' = kpi_options[i]
    /\ clicked' = FALSE
    /\ UNCHANGED <<priority, top_n, selected_country, product>>
    /\ Rerun

\* lines 10-40: title, credential, table
Setup ==
    /\ pc = "setup"
    /\ IF credential = "absent"
       THEN /\ page' = page \cup {"title", "error"}
            /\ pc' = "stopped"
            /\ df' = df
       ELSE /\ page' = page \cup {"title"}
            /\ pc' = "tab1"
            /\ df' = FreshFrame
    /\ UNCHANGED <<credential, build, widgets, mark>>
    /\ UNCHANGED <<weights, ranked, shown, country_data, prompt, response, notes>>

\* lines 43-112
MarketDiscovery ==
    /\ pc = "tab1"
    /\ weights' = Weights(priority)
    /\ df' = Scored(df, priority)
    /\ ranked' = Rank(df', build)
    /\ shown' = Head_n(ranked', top_n)
    /\ page' = page \cup {"ranking", "top_market", "bar_chart"}
                    \cup (IF Cardinality(selected_cols(priority)) >= 3
                          THEN {"radar_chart"} ELSE {})
    /\ pc' = "tab2"
    /\ UNCHANGED <<credential, build, widgets, mark>>
    /\ UNCHANGED <<country_data, prompt, response, notes>>

\* lines 114-157
GTMStrategy ==
    /\ pc = "tab2"
    /\ country_data' = CountryData(df, selected_country)
    /\ prompt' = Prompt(country_data', product)
    /\ IF clicked
       THEN \E outcome \in ApiOutcomes(credential) :
                IF outcome = "ok"
                THEN /\ response' = "ok"
                     /\ page' = page \cup {"gtm_inputs", "strategy"}
                     /\ pc' = "tab3"
                ELSE /\ response' = "none"
                     /\ page' = page \cup {"gtm_inputs", "exception"}
                     /\ pc' = "failed"
       ELSE /\ response' = "none"
            /\ page' = page \cup {"gtm_inputs"}
            /\ pc' = "tab3"
    /\ UNCHANGED <<credential, build, widgets, mark>>
    /\ UNCHANGED <<df, weights, ranked, shown, notes>>

\* lines 160-224
MonitorAdapt ==
    /\ pc = "tab3"
    /\ notes' = FeedbackTable[kpi_map[selected_kpi]]
    /\ page' = page \cup {"kpi_chart", "feedback"}
    /\ pc' = "done"
    /\ UNCHANGED <<credential, build, widgets, mark>>
    /\ UNCHANGED <<df, weights, ranked, shown, country_data, prompt, response>>

Run ==
    Setup \/ MarketDiscovery \/ GTMStrategy \/ MonitorAdapt

\* the selections the whole-page specification explores: at most MaxPicked
\* priorities at a time
MaxPicked == 1

FewPriorities ==
    {P \in SUBSET PriorityOptions : Cardinality(P) <= MaxPicked}

Next ==
    \/ Run
    \/ SelectPriorities(FewPriorities)
    \/ MoveSlider
    \/ SelectCountry
    \/ EditProduct
    \/ ClickGenerate
    \/ SelectKpi

Spec == Init /\ [][Next]_vars

(***************************************************************************)
(* Market Discovery alone: every priority selection, the slider, every     *)
(* modelled sort.                                                          *)
(***************************************************************************)
InitDiscovery ==
    Start(Credentials, 0..MaxBuild)

NextDiscovery ==
    \/ Run
    \/ SelectPriorities(SUBSET PriorityOptions)
    \/ MoveSlider

SpecDiscovery == InitDiscovery /\ [][NextDiscovery]_vars

(***************************************************************************)
(* The same with a history variable: Bookmark records the tab 1 output of  *)
(* one finished run, so that every later run can be compared with it.      *)
(***************************************************************************)
ScoreColumn(d) ==
    [i \in 1..Len(d) |-> d[i].Score]

Bookmark ==
    /\ pc = "done"
    /\ mark = Unset
    /\ mark' = [priority |-> priority, Score |-> ScoreColumn(df), ranked |-> ranked]
    /\ UNCHANGED <<credential, build, widgets, pc, script, page>>

NextRerun ==
    \/ Run
    \/ SelectPriorities(SUBSET PriorityOptions)
    \/ MoveSlider
    \/ Bookmark

SpecRerun == InitDiscovery /\ [][NextRerun]_vars

(***************************************************************************)
(* The weights expression alone, applied to arbitrary sets of names: the   *)
(* five options and MaxOtherNames names the multiselect does not offer.    *)
(***************************************************************************)
MaxOtherNames == 2

OtherNameList ==
    <<"Low Labour Cost", "Political Stability", "Tax Incentives", "EV_Adoption">>

OtherNames ==
    {OtherNameList[((k - 1) % Len(OtherNameList)) + 1] : k \in 1..MaxOtherNames}

InitWeights ==
    /\ credential = "valid"
    /\ build = 0
    /\ priority \in SUBSET (PriorityOptions \cup OtherNames)
    /\ top_n = 5
    /\ selected_country = mock_data.Country[1]
    /\ product = DefaultProduct
    /\ clicked = FALSE
    /\ selected_kpi = kpi_options[1]
    /\ pc = "weights"
    /\ df = Unset /\ weights = Unset /\ ranked = Unset /\ shown = Unset
    /\ country_data = Unset /\ prompt = Unset /\ response = "none" /\ notes = Unset
    /\ page = {}
    /\ mark = Unset

ApplyWeights ==
    /\ pc = "weights"
    /\ weights' = Weights(priority)
    /\ pc' = "weighted"
    /\ UNCHANGED <<credential, build, widgets, page, mark>>
    /\ UNCHANGED <<df, ranked, shown, country_data, prompt, response, notes>>

NextWeights ==
    ApplyWeights

SpecWeights == InitWeights /\ [][NextWeights]_vars

(***************************************************************************)
(* Claims.                                                                 *)
(***************************************************************************)
S(i) == df[i].Score

Pos(x) == CHOOSE k \in 1..Len(ranked) : ranked[k] = x

Picked(flag) == IF flag \in priority THEN 1 ELSE 0

\* the value of the score formula in real arithmetic, in thousandths
ExactMilli(i, P) ==
      mock_data.EV_Adoption[i] * (IF "EV Adoption" \in P THEN 400 ELSE 0)
    - mock_data.Tariffs[i] * (IF "Low Import Tariffs" \in P THEN 200 ELSE 0)
    + mock_data.Charging_Stations[i] * (IF "Strong Infrastructure" \in P THEN 2 ELSE 0)
    + ((mock_data.China_Sentiment[i][1] * 10) \div mock_data.China_Sentiment[i][2])
          * (IF "Positive China Sentiment" \in P THEN 200 ELSE 0)
    + mock_data.Market_Size[i] * (IF "Market Size" \in P THEN 200 ELSE 0)

\* the binary64 numbers one millionth below and above that value
ScoreBand ==
    Memo([P \in SUBSET PriorityOptions |->
            [i \in Rows |->
                [lo |-> Dec(ExactMilli(i, P) * 1000 - 1, 1000000),
                 hi |-> Dec(ExactMilli(i, P) * 1000 + 1, 1000000)]]])

Lit33 == FromInt(33)

(* C1: after scoring, the Score of every record is the binary64 value of
   EV_Adoption*w_EV + Tariffs*w_Tariffs + (Charging_Stations/100)*w_Stations
   + (China_Sentiment*10)*w_Sentiment + Market_Size*w_Size: it lies within
   one millionth of the formula's real value with exactly the scalings /100
   and *10, and Norway under {EV Adoption, Market Size} scores exactly 33.0. *)
C1_ScoreFormula ==
    Tab1Rendered =>
        /\ \A i \in Rows :
              /\ FGt(S(i), ScoreBand[priority][i].lo)
              /\ FLt(S(i), ScoreBand[priority][i].hi)
        /\ priority = {"EV Adoption", "Market Size"} => S(1) = Lit33

C1_Witness ==
    /\ Tab1Rendered
    /\ priority = {"EV Adoption", "Market Size"}
    /\ df[1].Country = "Norway"
    /\ S(1) = Lit33

(* C2: for every set of names, each coefficient is its table value (+0.4,
   -0.2, +0.2, +0.2, +0.2) exactly when its flag is in the set and 0
   otherwise; names outside the five options change nothing. *)
C2_WeightTable ==
    pc = "weighted" =>
        /\ weights.EV_Adoption =
              (IF Picked("EV Adoption") = 1 THEN Lit04 ELSE FZero)
        /\ weights.Tariffs =
              (IF Picked("Low Import Tariffs") = 1
               THEN [Lit02 EXCEPT !.s = -1] ELSE FZero)
        /\ weights.Charging_Stations =
              (IF Picked("Strong Infrastructure") = 1 THEN Lit02 ELSE FZero)
        /\ weights.China_Sentiment =
              (IF Picked("Positive China Sentiment") = 1 THEN Lit02 ELSE FZero)
        /\ weights.Market_Size =
              (IF Picked("Market Size") = 1 THEN Lit02 ELSE FZero)
        /\ Lit04.s = 1 /\ Lit02.s = 1 /\ FGt(Lit04, Lit02)

C2_Witness ==
    /\ pc = "weighted"
    /\ priority \cap OtherNames # {}
    /\ "Low Import Tariffs" \in priority
    /\ weights.Tariffs.s = -1
    /\ weights.EV_Adoption = FZero

(* C3: for every priority selection, ranked holds each of the 8 records
   exactly once in non-increasing Score order, so the first one has the
   maximum Score; with all five priorities selected it is Norway. *)
C3_RankedDescending ==
    Tab1Rendered =>
        /\ Len(ranked) = NumRows
        /\ \A x \in Rows : Cardinality({k \in 1..Len(ranked) : ranked[k] = x}) = 1
        /\ \A k \in 1..(Len(ranked) - 1) : ~FLt(S(ranked[k]), S(ranked[k + 1]))
        /\ \A x \in Rows : ~FGt(S(x), S(ranked[1]))
        /\ priority = PriorityOptions => df[ranked[1]].Country = "Norway"

C3_Witness ==
    /\ Tab1Rendered
    /\ priority = PriorityOptions
    /\ df[ranked[1]].Country = "Norway"
    /\ FGt(S(ranked[1]), S(ranked[2]))

(* C4: for every priority selection and every n from 3 to 8, the displayed
   rows are exactly n records, the first n of ranked in the same order. *)
C4_TopN ==
    Tab1Rendered =>
        /\ top_n \in 3..NumRows
        /\ Len(shown) = top_n
        /\ \A k \in 1..top_n : shown[k] = ranked[k]

C4_Witness ==
    /\ Tab1Rendered
    /\ top_n = NumRows
    /\ Len(shown) = NumRows
    /\ priority # {}

RegionSet == {Regions[i] : i \in 1..Len(Regions)}

\* last observation minus second-to-last, of the four
LastDelta ==
    Memo([m \in {kpi_map[k] : k \in DOMAIN kpi_map} |->
            [r \in RegionSet |->
                FSub(Lit(telemetry[r][m][4]), Lit(telemetry[r][m][3]))]])

metric == kpi_map[selected_kpi]

(* C5: for every chosen metric and every region the note is exactly one of
   momentum / underwhelming / stable, decided by trend = last observation
   minus second-to-last (in binary64): for CTR, Retention, Media_Sentiment
   and Engagement momentum iff trend > 0.3, underwhelming iff trend < 0.1,
   else stable; for CPI momentum iff trend < -2, underwhelming iff
   trend > 1, else stable.  CPI/UK is stable and CTR/Norway is momentum. *)
C5_FeedbackRule ==
    pc = "done" =>
        /\ DOMAIN notes = RegionSet
        /\ \A r \in RegionSet :
              LET t == LastDelta[metric][r]
              IN  /\ notes[r] \in {"momentum", "underwhelming", "stable"}
                  /\ metric # "CPI" =>
                        /\ notes[r] = "momentum" <=> FGt(t, Lit03)
                        /\ notes[r] = "underwhelming" <=> FLt(t, Lit01)
                  /\ metric = "CPI" =>
                        /\ notes[r] = "momentum" <=> FLt(t, LitMinus2)
                        /\ notes[r] = "underwhelming" <=> FGt(t, Lit1)
        /\ metric = "CPI" => notes["UK"] = "stable"
        /\ metric = "CTR" => notes["Norway"] = "momentum"

C5_Witness ==
    /\ pc = "done"
    /\ metric = "CPI"
    /\ notes["UK"] = "stable"
    /\ notes["Norway"] = "momentum"

TabElements ==
    {"ranking", "top_market", "bar_chart", "radar_chart", "gtm_inputs",
     "strategy", "exception", "kpi_chart", "feedback"}

(* C6: when the credential is absent or invalid, the run shows an error and
   halts: no later step of the run (scoring, ranking, prompt assembly,
   text-generation call, telemetry feedback) is executed and no tab of the
   page is rendered. *)
C6_HaltOnBadCredential ==
    credential \in {"absent", "invalid"} =>
        /\ pc \in {"setup", "stopped"}
        /\ pc = "stopped" => "error" \in page
        /\ page \cap TabElements = {}
        /\ weights = Unset /\ ranked = Unset /\ prompt = Unset /\ notes = Unset

(* C7: when the text-generation call fails, the fault is displayed and the
   rest of the page is intact: the Market Discovery ranking and the
   Monitor & Adapt feedback are rendered in that run. *)
C7_FaultLeavesPageIntact ==
    pc = "failed" =>
        /\ "exception" \in page
        /\ "ranking" \in page
        /\ "feedback" \in page
        /\ notes # Unset

(* C8: after any sequence of reruns, the table's columns are the seed's and
   a run with the selection of an earlier (bookmarked) run has the Scores
   and the ranked order of that run, whatever was selected in between. *)
C8_RunsIndependent ==
    Tab1Rendered =>
        /\ \A i \in Rows :
              /\ df[i].Country = mock_data.Country[i]
              /\ df[i].EV_Adoption = mock_data.EV_Adoption[i]
              /\ df[i].Tariffs = mock_data.Tariffs[i]
              /\ df[i].Charging_Stations = mock_data.Charging_Stations[i]
              /\ df[i].Market_Size = mock_data.Market_Size[i]
        /\ (mark # Unset /\ mark.priority = priority) =>
              /\ ScoreColumn(df) = mark.Score
              /\ ranked = mark.ranked

\* a later run (the bookmark is taken when a run has finished) with the
\* bookmarked selection, tied rows and another slider position
C8_Witness ==
    /\ pc = "tab2"
    /\ mark # Unset
    /\ mark.priority = priority
    /\ top_n # 5
    /\ \E i, j \in Rows : i # j /\ S(i) = S(j)
    /\ ranked = mark.ranked

(* C9: the flows share no state: the record read for the selected country
   and the prompt are the same under every priority selection, and a run
   that has ended has produced the notes of the chosen KPI. *)
C9_FlowsIndependent ==
    /\ Tab2Rendered =>
          \A P \in FewPriorities :
              /\ country_data = CountryData(Scored(FreshFrame, P), selected_country)
              /\ prompt = Prompt(CountryData(Scored(FreshFrame, P), selected_country), product)
    /\ pc \in {"done", "failed"} =>
          /\ notes # Unset
          /\ notes = FeedbackTable[metric]

====
